---- MODULE Spec2Model ----
(***************************************************************************)
(* Model of the coding-coach retrieval backend: the chunk store and its    *)
(* search (db/vectors.ts), the conversation store in its in-memory and     *)
(* database-backed variants (agent/retrieval.ts), the session summarizer   *)
(* (agent/summarizer.ts) and the context assembler (buildContext).         *)
(*                                                                         *)
(* Conventions                                                             *)
(*   - a text (chunk, message content, query) is a sequence of word        *)
(*     tokens; String.includes / startsWith / full-text matching are       *)
(*     computed on the tokens;                                             *)
(*   - an optional value (undefined / null in the source) is a sequence    *)
(*     of length 0 (absent) or 1 (present);                                *)
(*   - a function that may throw returns a record with a threw field;      *)
(*   - a similarity is kept in tenths (0.8 is 8, 0.7 is 7);                *)
(*   - ret is the outcome of the call made by the last step.               *)
(***************************************************************************)
EXTENDS Integers, Sequences, FiniteSets, TLC

VARIABLES
  vectorEmbedding,  \* table "VectorEmbedding": rows in creation order
  written,          \* history: key -> text of the last record write for the key
  messageHistory,   \* in-memory Map sessionId -> ConversationMessage[]
  message,          \* table "Message": rows in creation order
  now,              \* database clock (CURRENT_TIMESTAMP, millisecond ticks)
  session,          \* table "Session": the number of rows created so far
  chat,             \* POST /chat requests under way: request -> its position and data
  summarizing,      \* summarizeSession runs started by a chat turn and not awaited
  ret               \* outcome of the last call

vars == <<vectorEmbedding, written, messageHistory, message, now, session, chat,
         summarizing, ret>>

\* the state of the chat handler
chatVars == <<session, chat, summarizing>>

----------------------------------------------------------------------------
(* Bounds and input alphabets *)

MaxBatch == 2      \* longest chunk list handed to upsertChunks
MaxLimit == 2      \* largest limit handed to a search
MaxMessages == 4   \* messages held by the in-memory store, all sessions together
MaxRows == 5       \* rows of table Message
MaxTies == 2       \* rows of table Message created within one tick of the clock

NoCall == [op |-> "none"]   \* no call is under way

SessionIds == {"s1", "s2"}

EmptyMap == [s \in {} |-> <<>>]

Sources   == {"test"}
SourceIds == {"1", "2"}
Keys      == Sources \X SourceIds

StopWords == {"is"}
Texts     == {<<"html", "is", "structure">>, <<"css", "is", "style", "css">>,
              <<"css", "grid">>}
Queries   == {<<"CSS">>, <<"is">>, <<"style", "page">>, <<"is", "html">>,
              <<"component", "html", "javascript">>}
Thresholds == {7, 9}

EmbeddingChunks == [source : Sources, sourceId : SourceIds, chunk : Texts]

SeqsUpTo(S, n) == UNION {[1..k -> S] : k \in 0..n}

Range(s) == {s[i] : i \in 1..Len(s)}

Min(a, b) == IF a < b THEN a ELSE b

SetMax(S) == CHOOSE x \in S : \A y \in S : y <= x

\* String.prototype.toLowerCase on one token (the mixed-case tokens of the alphabets)
toLowerCase(token) ==
  CASE token = "CSS" -> "css"
    [] token = "HTML" -> "html"
    [] token = "Hi" -> "hi"
    [] token = "Hello" -> "hello"
    [] token = "Basics" -> "basics"
    [] token = "Fundamentals" -> "fundamentals"
    [] token = "JavaScript" -> "javascript"
    [] token = "Essentials" -> "essentials"
    [] token = "Design" -> "design"
    [] token = "System" -> "system"
    [] token = "Documentation" -> "documentation"
    [] token = "Best" -> "best"
    [] token = "Practices" -> "practices"
    [] OTHER -> token

\* String.prototype.includes(keyword) on a lower-cased text
Includes(text, keyword) == \E i \in 1..Len(text) : toLowerCase(text[i]) = keyword

----------------------------------------------------------------------------
(* Calls are made one after the other, as the callers await each of them: a *)
(* call starts when no outcome is pending, and Return hands the outcome of  *)
(* the last call to its caller.                                             *)

Idle == ret.op = "none"

Return ==
  /\ ~Idle
  /\ ret' = NoCall
  /\ UNCHANGED <<vectorEmbedding, written, messageHistory, message, now>>
  /\ UNCHANGED chatVars

----------------------------------------------------------------------------
(* Chunk store: db/vectors.ts *)

Key(c) == <<c.source, c.sourceId>>

\* the embedding the provider computes for one text, and its stored form
EmbeddingOf(text) == <<Len(text), Cardinality(Range(text))>>

JSONstringify(embedding) == <<"[", embedding[1], ",", embedding[2], "]">>

embedChunks_NoThrow(texts, providerOk, count) ==
  IF providerOk
  THEN [threw |-> FALSE,
        val |-> [i \in 1..Min(count, Len(texts)) |-> EmbeddingOf(texts[i])]]
  ELSE [threw |-> FALSE, val |-> <<>>]

\* embedChunks: the provider either errors (rethrown as
\* 'Failed to generate embeddings') or answers with `count` embeddings
embedChunks(texts, providerOk, count) ==
  IF providerOk
  THEN [threw |-> FALSE,
        val |-> [i \in 1..Min(count, Len(texts)) |-> EmbeddingOf(texts[i])]]
  ELSE [threw |-> TRUE, val |-> <<>>]

VectorEmbeddingUpsert_CreateOnly(table, chunk, embedding) ==
  Append(table, [id |-> Len(table) + 1,
                 source |-> chunk.source,
                 sourceId |-> chunk.sourceId,
                 chunk |-> chunk.chunk,
                 embedding |-> JSONstringify(embedding)])

\* prisma.vectorEmbedding.upsert on the unique key (source, sourceId)
VectorEmbeddingUpsert(table, chunk, embedding) ==
  IF \E i \in 1..Len(table) : Key(table[i]) = Key(chunk)
  THEN [i \in 1..Len(table) |->
          IF Key(table[i]) = Key(chunk)
          THEN [table[i] EXCEPT !.chunk = chunk.chunk,
                                !.embedding = JSONstringify(embedding)]
          ELSE table[i]]
  ELSE Append(table, [id |-> Len(table) + 1,
                      source |-> chunk.source,
                      sourceId |-> chunk.sourceId,
                      chunk |-> chunk.chunk,
                      embedding |-> JSONstringify(embedding)])

\* the for loop of upsertChunks from index i on; the write of iteration
\* failAt is the one the database rejects (failAt > Len(chunks): none)
RECURSIVE UpsertLoop(_, _, _, _, _)
UpsertLoop(table, chunks, embeddings, i, failAt) ==
  IF i > Len(chunks) THEN [threw |-> FALSE, table |-> table]
  ELSE IF i > Len(embeddings)
       THEN UpsertLoop(table, chunks, embeddings, i + 1, failAt)
  ELSE IF i = failAt THEN [threw |-> TRUE, table |-> table]
  ELSE UpsertLoop(VectorEmbeddingUpsert(table, chunks[i], embeddings[i]),
                  chunks, embeddings, i + 1, failAt)

upsertChunks(table, chunks, providerOk, count, failAt) ==
  IF Len(chunks) = 0 THEN [threw |-> FALSE, table |-> table]
  ELSE LET embeddings == embedChunks([i \in 1..Len(chunks) |-> chunks[i].chunk],
                                     providerOk, count)
       IN IF embeddings.threw
          THEN [threw |-> TRUE, table |-> table]
          ELSE UpsertLoop(table, chunks, embeddings.val, 1, failAt)

\* history of record writes: the indices of the batch whose write was carried out
WrittenIndices(chunks, providerOk, count, failAt) ==
  IF providerOk
  THEN {i \in 1..Len(chunks) :
          /\ i <= count
          /\ \A j \in 1..i : (j <= count) => j # failAt}
  ELSE {}

LastWrites(old, chunks, providerOk, count, failAt) ==
  [k \in Keys |->
     LET I == {i \in WrittenIndices(chunks, providerOk, count, failAt) :
                 Key(chunks[i]) = k}
     IN IF I = {} THEN old[k] ELSE <<chunks[SetMax(I)].chunk>>]

\* what a batch asks for: key -> the text of its last chunk for the key
WantedByBatch(chunks) ==
  [k \in Keys |->
     LET I == {i \in 1..Len(chunks) : Key(chunks[i]) = k}
     IN IF I = {} THEN <<>> ELSE <<chunks[SetMax(I)].chunk>>]

\* what the collaborators do during one call on n chunks: the provider errors,
\* or it answers with count <= n embeddings and every write is accepted, or it
\* answers in full and the database rejects the write of iteration failAt
CallOutcomes(n) ==
  {[providerOk |-> FALSE, count |-> 0, failAt |-> n + 1]} \cup
  {[providerOk |-> TRUE, count |-> c, failAt |-> n + 1] : c \in 0..n} \cup
  {[providerOk |-> TRUE, count |-> n, failAt |-> f] : f \in 1..n}

UpsertChunks ==
  /\ Idle
  /\ \E chunks \in SeqsUpTo(EmbeddingChunks, MaxBatch) :
         \E o \in CallOutcomes(Len(chunks)) :
           LET r == upsertChunks(vectorEmbedding, chunks, o.providerOk, o.count, o.failAt)
           IN /\ vectorEmbedding' = r.table
              /\ written' = LastWrites(written, chunks, o.providerOk, o.count, o.failAt)
              /\ ret' = [op |-> "upsertChunks", size |-> Len(chunks),
                         wanted |-> WantedByBatch(chunks),
                         providerOk |-> o.providerOk,
                         complete |-> o.providerOk /\ o.count = Len(chunks),
                         writeFailed |-> o.failAt <= o.count,
                         threw |-> r.threw, before |-> vectorEmbedding]
              /\ UNCHANGED <<messageHistory, message, now>>
              /\ UNCHANGED chatVars

----------------------------------------------------------------------------
(* Relevance search: searchChunks, db/vectors.ts *)

\* to_tsvector / plainto_tsquery: the lexemes of a text, stop words dropped
to_tsvector(text) == {toLowerCase(text[i]) : i \in 1..Len(text)} \ StopWords

plainto_tsquery(query) == {toLowerCase(query[i]) : i \in 1..Len(query)} \ StopWords

\* tsvector @@ tsquery: every query lexeme occurs; an empty query matches nothing
TsMatch(text, query) ==
  /\ plainto_tsquery(query) # {}
  /\ plainto_tsquery(query) \subseteq to_tsvector(text)

\* ts_rank: grows with the number of occurrences of the query lexemes
ts_rank(text, query) ==
  Cardinality({i \in 1..Len(text) : toLowerCase(text[i]) \in plainto_tsquery(query)})

Similarity == 8   \* the literal 0.8 of the SELECT list

\* the row orders ORDER BY ts_rank DESC may produce (ties in any order)
RankedOrders(table, query) ==
  LET hits == {i \in 1..Len(table) : TsMatch(table[i].chunk, query)}
      n == Cardinality(hits)
  IN {p \in [1..n -> hits] :
        /\ \A a, b \in 1..n : a # b => p[a] # p[b]
        /\ \A a, b \in 1..n : a < b =>
             ts_rank(table[p[a]].chunk, query) >= ts_rank(table[p[b]].chunk, query)}

SearchResult(row) ==
  [id |-> row.id, source |-> row.source, sourceId |-> row.sourceId,
   chunk |-> row.chunk, similarity |-> Similarity]

searchChunks_Rethrow(table, query, limit, threshold, backendOk) ==
  IF backendOk
  THEN {[threw |-> FALSE,
         val |-> [i \in 1..Min(limit, Len(p)) |-> SearchResult(table[p[i]])]] :
           p \in RankedOrders(table, query)}
  ELSE {[threw |-> TRUE, val |-> <<>>]}

searchChunks_NoLimit(table, query, limit, threshold, backendOk) ==
  IF backendOk
  THEN {[threw |-> FALSE,
         val |-> [i \in 1..Len(p) |-> SearchResult(table[p[i]])]] :
           p \in RankedOrders(table, query)}
  ELSE {[threw |-> FALSE, val |-> <<>>]}

\* the set of outcomes of searchChunks(query, limit, threshold); backendOk is
\* whether prisma.$queryRaw answers
searchChunks(table, query, limit, threshold, backendOk) ==
  IF backendOk
  THEN {[threw |-> FALSE,
         val |-> [i \in 1..Min(limit, Len(p)) |-> SearchResult(table[p[i]])]] :
           p \in RankedOrders(table, query)}
  ELSE {[threw |-> FALSE, val |-> <<>>]}

SearchChunks ==
  /\ Idle
  /\ \E query \in Queries, limit \in 0..MaxLimit, threshold \in Thresholds,
          backendOk \in BOOLEAN :
         \E r \in searchChunks(vectorEmbedding, query, limit, threshold, backendOk) :
           /\ ret' = [op |-> "searchChunks", query |-> query, limit |-> limit,
                      threshold |-> threshold, backendOk |-> backendOk,
                      threw |-> r.threw, val |-> r.val, before |-> vectorEmbedding]
           /\ UNCHANGED <<vectorEmbedding, written, messageHistory, message, now>>
           /\ UNCHANGED chatVars

----------------------------------------------------------------------------
(* Relevance search, in-memory variant: getRelevantDocuments, agent/retrieval.ts *)

learningMaterials == <<
  [source |-> "css-design-system-best-practices", sourceId |-> "design-system-guide",
   chunk |-> <<"css", "design", "systems">>,
   keywords |-> <<"css", "design", "system", "style", "component", "reusable">>],
  [source |-> "css-design-system-documentation", sourceId |-> "design-system-docs",
   chunk |-> <<"token", "architecture">>,
   keywords |-> <<"token", "architecture", "primitive", "alias", "component", "responsive">>],
  [source |-> "html-basics", sourceId |-> "html-guide",
   chunk |-> <<"html", "is", "structure">>,
   keywords |-> <<"html", "structure", "element", "semantic", "head", "body">>],
  [source |-> "javascript-fundamentals", sourceId |-> "js-guide",
   chunk |-> <<"javascript", "makes", "interactive">>,
   keywords |-> <<"javascript", "interactive", "function", "variable", "event", "dom">>] >>

\* Array.prototype.slice(0, end) for end >= 0
SliceTo(s, end) == SubSeq(s, 1, Min(end, Len(s)))

getRelevantDocumentsMem(query, limit, threshold) ==
  LET match(doc) == \E j \in 1..Len(doc.keywords) : Includes(query, doc.keywords[j])
      hits == SelectSeq(learningMaterials, match)
      docs == [i \in 1..Len(hits) |->
                 [source |-> hits[i].source, sourceId |-> hits[i].sourceId,
                  chunk |-> hits[i].chunk, similarity |-> Similarity]]
  IN SliceTo(docs, limit)

GetRelevantDocumentsMem ==
  /\ Idle
  /\ \E query \in Queries, limit \in 0..MaxLimit, threshold \in Thresholds :
         /\ ret' = [op |-> "getRelevantDocuments", query |-> query, limit |-> limit,
                    threshold |-> threshold, backendOk |-> TRUE, threw |-> FALSE,
                    val |-> getRelevantDocumentsMem(query, limit, threshold),
                    before |-> vectorEmbedding]
         /\ UNCHANGED <<vectorEmbedding, written, messageHistory, message, now>>
         /\ UNCHANGED chatVars

----------------------------------------------------------------------------
(* Conversation store, in-memory variant: agent/retrieval.ts *)

\* the messages the chat handler hands to storeMessage
MemMessages ==
  {[role |-> "user", content |-> <<"Hi">>, timestamp |-> 0],
   [role |-> "user", content |-> <<"css", "grid">>, timestamp |-> 0],
   [role |-> "assistant", content |-> <<"use", "flexbox">>, timestamp |-> 0]}

\* Array.prototype.slice(start): a negative start counts from the end
SliceFrom(s, start) ==
  LET k == IF start < 0
           THEN (IF Len(s) + start > 0 THEN Len(s) + start ELSE 0)
           ELSE Min(start, Len(s))
  IN SubSeq(s, k + 1, Len(s))

\* messageHistory.get(sessionId) || []
MessagesOf(map, sessionId) ==
  IF sessionId \in DOMAIN map THEN map[sessionId] ELSE <<>>

getRecentMessagesMem(map, sessionId, limit) ==
  SliceFrom(MessagesOf(map, sessionId), 0 - limit)

storeMessage_Unshift(map, sessionId, msg) ==
  [s \in DOMAIN map \cup {sessionId} |->
     IF s = sessionId THEN <<msg>> \o MessagesOf(map, s) ELSE map[s]]

storeMessage(map, sessionId, msg) ==
  [s \in DOMAIN map \cup {sessionId} |->
     IF s = sessionId THEN Append(MessagesOf(map, s), msg) ELSE map[s]]

deleteSession_AlwaysTrue(map, sessionId) ==
  [val |-> TRUE, map |-> [s \in DOMAIN map \ {sessionId} |-> map[s]]]

\* deleteSession: true and the session removed when it existed, false otherwise
deleteSession(map, sessionId) ==
  IF sessionId \in DOMAIN map
  THEN [val |-> TRUE, map |-> [s \in DOMAIN map \ {sessionId} |-> map[s]]]
  ELSE [val |-> FALSE, map |-> map]

RECURSIVE SumOver(_, _)
SumOver(f, S) ==
  IF S = {} THEN 0
  ELSE LET x == CHOOSE y \in S : TRUE IN Len(f[x]) + SumOver(f, S \ {x})

StoreMessage ==
  /\ Idle
  /\ \E sessionId \in SessionIds, msg \in MemMessages :
         /\ SumOver(messageHistory, DOMAIN messageHistory) < MaxMessages
         /\ messageHistory' = storeMessage(messageHistory, sessionId, msg)
         /\ ret' = [op |-> "storeMessage", sessionId |-> sessionId]
         /\ UNCHANGED <<vectorEmbedding, written, message, now>>
         /\ UNCHANGED chatVars

GetRecentMessagesMem ==
  /\ Idle
  /\ \E sessionId \in SessionIds, limit \in 0..MaxMessages :
         /\ ret' = [op |-> "getRecentMessages", sessionId |-> sessionId,
                    limit |-> limit,
                    val |-> getRecentMessagesMem(messageHistory, sessionId, limit)]
         /\ UNCHANGED <<vectorEmbedding, written, messageHistory, message, now>>
         /\ UNCHANGED chatVars

DeleteSession ==
  /\ Idle
  /\ \E sessionId \in SessionIds :
         LET r == deleteSession(messageHistory, sessionId)
         IN /\ messageHistory' = r.map
            /\ ret' = [op |-> "deleteSession", sessionId |-> sessionId, val |-> r.val]
            /\ UNCHANGED <<vectorEmbedding, written, message, now>>
            /\ UNCHANGED chatVars

----------------------------------------------------------------------------
(* Conversation store, database variant: table Message *)

\* the conversation of the smoke test (Test 3), texts abbreviated; every session
\* is written in this order, starting over after the last message
testMessages == <<
  [role |-> "user", content |-> <<"how", "create", "button">>],
  [role |-> "assistant", content |-> <<"use", "button", "element", "HTML">>],
  [role |-> "user", content |-> <<"how", "style", "CSS">>],
  [role |-> "assistant", content |-> <<"use", "CSS", "selectors", "style", "button">>] >>

\* the clock advances; only the ticks between two writes are told apart
Tick ==
  /\ Idle
  /\ \E i \in 1..Len(message) : message[i].createdAt = now
  /\ now' = now + 1
  /\ UNCHANGED <<vectorEmbedding, written, messageHistory, message, ret>>
  /\ UNCHANGED chatVars

\* fewer than MaxTies rows carry the current time
RoomInTick(table, clock) ==
  Cardinality({i \in 1..Len(table) : table[i].createdAt = clock}) < MaxTies

\* prisma.message.create: id and createdAt are column defaults
messageCreate(table, sessionId, role, content, clock, dbOk) ==
  IF dbOk
  THEN [threw |-> FALSE,
        table |-> Append(table, [id |-> Len(table) + 1, sessionId |-> sessionId,
                                 role |-> role, content |-> content,
                                 createdAt |-> clock])]
  ELSE [threw |-> TRUE, table |-> table]

\* where: {sessionId}, the indices of the rows selected
WhereSession(table, sessionId) == {i \in 1..Len(table) : table[i].sessionId = sessionId}

\* the orders in which ORDER BY "createdAt" may list the rows of the index set
\* hits: the next row is any row with the least (greatest) createdAt left
RECURSIVE OrdersBy(_, _, _)
OrdersBy(table, hits, descending) ==
  IF hits = {} THEN {<<>>}
  ELSE LET first == {i \in hits :
                       \A j \in hits :
                         IF descending
                         THEN table[i].createdAt >= table[j].createdAt
                         ELSE table[i].createdAt <= table[j].createdAt}
       IN UNION {{<<table[i]>> \o rest :
                    rest \in OrdersBy(table, hits \ {i}, descending)} : i \in first}

\* prisma.message.findMany({where, orderBy: {createdAt}}): the row sequences the
\* database may answer with; rows of equal createdAt come in any order
FindManyOrders(table, hits, descending) == OrdersBy(table, hits, descending)

Take(s, n) == SubSeq(s, 1, Min(n, Len(s)))

Reverse(s) == [i \in 1..Len(s) |-> s[Len(s) + 1 - i]]

\* the next message of the session's conversation
NextMessage(table, sessionId) ==
  LET n == Cardinality({i \in WhereSession(table, sessionId) : table[i].role # "system"})
  IN testMessages[(n % Len(testMessages)) + 1]

MessageCreate ==
  /\ Idle
  /\ Len(message) < MaxRows
  /\ RoomInTick(message, now)
  /\ \E sessionId \in SessionIds, dbOk \in BOOLEAN :
       LET m == NextMessage(message, sessionId)
           r == messageCreate(message, sessionId, m.role, m.content, now, dbOk)
       IN /\ message' = r.table
          /\ ret' = [op |-> "message.create", sessionId |-> sessionId,
                     threw |-> r.threw]
          /\ UNCHANGED <<vectorEmbedding, written, messageHistory, now>>
          /\ UNCHANGED chatVars

\* getRecentMessages (database): the set of its outcomes
getRecentMessagesDb(table, sessionId, limit, dbOk) ==
  IF dbOk
  THEN {[threw |-> FALSE,
         val |-> LET messages == Reverse(Take(rows, limit))
                 IN [i \in 1..Len(messages) |->
                       [role |-> messages[i].role, content |-> messages[i].content,
                        timestamp |-> messages[i].createdAt]]] :
          rows \in FindManyOrders(table, WhereSession(table, sessionId), TRUE)}
  ELSE {[threw |-> FALSE, val |-> <<>>]}

----------------------------------------------------------------------------
(* Session summarizer: agent/summarizer.ts *)

MinMessagesForSummary == 4
MaxTopics == 5

SummaryMarker == "SESSION SUMMARY:"

FallbackSummary == <<"Session completed with progress made.">>

CompletionText == <<"practiced", "css", "selectors">>

\* what the completion provider does: it errors, answers with no content, or
\* answers with a text
Completions == {"error", "empty", "text"}

StartsWith(content, marker) == Len(content) >= 1 /\ content[1] = marker

RECURSIVE Flatten(_)
Flatten(ss) == IF ss = <<>> THEN <<>> ELSE Head(ss) \o Flatten(Tail(ss))

\* messages.map(msg => `${msg.role}: ${msg.content}`).join('\n')
Transcript(messages) ==
  Flatten([i \in 1..Len(messages) |-> <<messages[i].role, ":">> \o messages[i].content])

generateAISummary_NoFallback(conversation, completion) ==
  CASE completion = "error" -> <<>>
    [] completion = "empty" -> FallbackSummary
    [] OTHER -> CompletionText

generateAISummary(conversation, completion) ==
  CASE completion = "error" -> FallbackSummary
    [] completion = "empty" -> FallbackSummary
    [] OTHER -> CompletionText

topicKeywords == <<
  [topic |-> "html", keywords |-> <<"html", "element", "tag", "attribute", "semantic">>],
  [topic |-> "css",
   keywords |-> <<"css", "style", "selector", "property", "flexbox", "grid", "layout">>],
  [topic |-> "javascript",
   keywords |-> <<"javascript", "js", "function", "variable", "array", "object", "dom">>],
  [topic |-> "responsive",
   keywords |-> <<"responsive", "mobile", "breakpoint", "media query">>],
  [topic |-> "accessibility",
   keywords |-> <<"accessibility", "a11y", "screen reader", "semantic">>],
  [topic |-> "performance",
   keywords |-> <<"performance", "optimization", "speed", "loading">>],
  [topic |-> "testing",
   keywords |-> <<"test", "debug", "console", "error", "validation">>] >>

IncludesAny(text, keywords) ==
  \E j \in 1..Len(keywords) : Includes(text, keywords[j])

\* Set.add of each element of new, in order
RECURSIVE AddAll(_, _)
AddAll(seen, new) ==
  IF new = <<>> THEN seen
  ELSE AddAll(IF Head(new) \in Range(seen) THEN seen ELSE Append(seen, Head(new)),
              Tail(new))

RECURSIVE TopicSet(_, _)
TopicSet(messages, topics) ==
  IF messages = <<>> THEN topics
  ELSE LET hit(entry) == IncludesAny(Head(messages).content, entry.keywords)
           found == SelectSeq(topicKeywords, hit)
       IN TopicSet(Tail(messages),
                   AddAll(topics, [i \in 1..Len(found) |-> found[i].topic]))

extractTopics(messages) == Take(TopicSet(messages, <<>>), MaxTopics)

skillIndicators == <<
  [skill |-> "html-basics",
   positive |-> <<"created", "understood", "successful", "working">>,
   negative |-> <<"confused", "error", "broken", "not working">>],
  [skill |-> "css-selectors",
   positive |-> <<"styled", "centered", "layout", "responsive">>,
   negative |-> <<"not styling", "not centered", "layout broken">>],
  [skill |-> "javascript-fundamentals",
   positive |-> <<"function", "variable", "working", "console.log">>,
   negative |-> <<"syntax error", "undefined", "not working">>] >>

CountIncluded(text, indicators) ==
  Cardinality({j \in 1..Len(indicators) : Includes(text, indicators[j])})

RECURSIVE SkillChange(_, _)
SkillChange(messages, entry) ==
  IF messages = <<>> THEN 0
  ELSE 10 * CountIncluded(Head(messages).content, entry.positive)
       - 5 * CountIncluded(Head(messages).content, entry.negative)
       + SkillChange(Tail(messages), entry)

Clamp(x) == IF x > 100 THEN 100 ELSE IF x < 0 - 100 THEN 0 - 100 ELSE x

\* the evidence text of a skill update is left out
analyzeSkillProgress(messages) ==
  LET changed(entry) == SkillChange(messages, entry) # 0
      hits == SelectSeq(skillIndicators, changed)
  IN [i \in 1..Len(hits) |->
        [skill |-> hits[i].skill, change |-> Clamp(SkillChange(messages, hits[i]))]]

analyzeLearningStyle(messages) ==
  LET content == Flatten([i \in 1..Len(messages) |-> messages[i].content])
      format == IF IncludesAny(content, <<"step by step", "tiny step">>)
                THEN <<"step-by-step", "Prefers step-by-step instructions">>
                ELSE IF IncludesAny(content, <<"example", "show me">>)
                THEN <<"examples", "Learns well from examples">>
                ELSE IF IncludesAny(content, <<"concept", "explain">>)
                THEN <<"concepts", "Wants conceptual understanding">>
                ELSE <<"mixed">>
      pace == IF IncludesAny(content, <<"slow", "take time">>)
              THEN <<"slow", "Prefers slower pace">>
              ELSE IF IncludesAny(content, <<"fast", "quick">>)
              THEN <<"fast", "Prefers faster pace">>
              ELSE <<"medium">>
      feedback == IF IncludesAny(content, <<"detailed", "explain more">>)
                  THEN <<"detailed", "Wants detailed explanations">>
                  ELSE IF IncludesAny(content, <<"brief", "short">>)
                  THEN <<"brief", "Prefers brief explanations">>
                  ELSE <<"mixed">>
  IN [preferredFormat |-> format[1], pace |-> pace[1], feedback |-> feedback[1],
      notes |-> Tail(format) \o Tail(pace) \o Tail(feedback)]

generateSummary_AtMost4(table, sessionId, dbOk, completion, clock) ==
  IF dbOk
  THEN {IF Len(messages) <= MinMessagesForSummary
        THEN <<>>
        ELSE <<[sessionId |-> sessionId,
                summary |-> generateAISummary(Transcript(messages), completion),
                topics |-> extractTopics(messages),
                skillProgress |-> analyzeSkillProgress(messages),
                learningStyle |-> analyzeLearningStyle(messages),
                createdAt |-> clock]>> :
          messages \in FindManyOrders(table, WhereSession(table, sessionId), FALSE)}
  ELSE {<<>>}

\* generateSummary: the set of its outcomes, null being <<>>; dbOk is whether
\* prisma.message.findMany answers
generateSummary(table, sessionId, dbOk, completion, clock) ==
  IF dbOk
  THEN {IF Len(messages) < MinMessagesForSummary
        THEN <<>>
        ELSE <<[sessionId |-> sessionId,
                summary |-> generateAISummary(Transcript(messages), completion),
                topics |-> extractTopics(messages),
                skillProgress |-> analyzeSkillProgress(messages),
                learningStyle |-> analyzeLearningStyle(messages),
                createdAt |-> clock]>> :
          messages \in FindManyOrders(table, WhereSession(table, sessionId), FALSE)}
  ELSE {<<>>}

\* the content storeSummary writes
SummaryContent(summary) ==
  <<SummaryMarker>> \o summary.summary \o <<"TOPICS:">> \o summary.topics
  \o <<"LEARNING STYLE:", summary.learningStyle.preferredFormat,
       summary.learningStyle.pace, summary.learningStyle.feedback>>
  \o summary.learningStyle.notes

\* storeSummary: a failed write is logged and swallowed
storeSummary(table, summary, clock, dbOk) ==
  LET r == messageCreate(table, summary.sessionId, "system", SummaryContent(summary),
                         clock, dbOk)
  IN [threw |-> FALSE, table |-> r.table]

\* what the backends do during one summarizeSession call: reading the message
\* log fails (nothing else is called then), or it answers and the completion
\* provider and the write of the summary row each fail or answer
SummarizeCalls ==
  {[readOk |-> FALSE, completion |-> "text", writeOk |-> TRUE]}
  \cup {[readOk |-> TRUE, completion |-> c, writeOk |-> w] :
          c \in Completions, w \in BOOLEAN}

\* summarizeSession: the set of its outcomes
summarizeSession(table, sessionId, readOk, completion, writeOk, clock) ==
  {IF summary = <<>>
   THEN [threw |-> FALSE, table |-> table, val |-> summary]
   ELSE [threw |-> FALSE,
         table |-> storeSummary(table, summary[1], clock, writeOk).table,
         val |-> summary] :
     summary \in generateSummary(table, sessionId, readOk, completion, clock)}

SummarizeSession ==
  /\ Idle
  /\ Len(message) < MaxRows
  /\ RoomInTick(message, now)
  /\ \E sessionId \in SessionIds, call \in SummarizeCalls :
       \E r \in summarizeSession(message, sessionId, call.readOk, call.completion,
                                 call.writeOk, now) :
         /\ message' = r.table
         /\ ret' = [op |-> "summarizeSession", sessionId |-> sessionId,
                    readOk |-> call.readOk, completion |-> call.completion,
                    writeOk |-> call.writeOk, threw |-> r.threw, val |-> r.val,
                    before |-> message]
         /\ UNCHANGED <<vectorEmbedding, written, messageHistory, now>>
         /\ UNCHANGED chatVars

\* where: {sessionId, role: 'system', content: {startsWith: 'SESSION SUMMARY:'}}
WhereSummary(table, sessionId) ==
  {i \in WhereSession(table, sessionId) :
     table[i].role = "system" /\ StartsWith(table[i].content, SummaryMarker)}

\* getLatestSummary: the set of its outcomes, undefined being <<>>
getLatestSummary(table, sessionId, dbOk) ==
  IF dbOk
  THEN {[threw |-> FALSE,
         val |-> IF rows = <<>> THEN <<>> ELSE <<rows[1].content>>] :
          rows \in FindManyOrders(table, WhereSummary(table, sessionId), TRUE)}
  ELSE {[threw |-> FALSE, val |-> <<>>]}

MaxLog == 6   \* rows of table Message while a session is summarized again

\* summarizeSession on a log that may already hold a summary of the session
SummarizeSessionAgain ==
  /\ Idle
  /\ Len(message) < MaxLog
  /\ RoomInTick(message, now)
  /\ \E sessionId \in SessionIds, call \in SummarizeCalls :
       \E r \in summarizeSession(message, sessionId, call.readOk, call.completion,
                                 call.writeOk, now) :
         /\ message' = r.table
         /\ ret' = [op |-> "summarizeSession", sessionId |-> sessionId,
                    readOk |-> call.readOk, completion |-> call.completion,
                    writeOk |-> call.writeOk, threw |-> r.threw, val |-> r.val,
                    before |-> message]
         /\ UNCHANGED <<vectorEmbedding, written, messageHistory, now>>
         /\ UNCHANGED chatVars

GetLatestSummary ==
  /\ Idle
  /\ \E sessionId \in SessionIds, dbOk \in BOOLEAN :
       \E r \in getLatestSummary(message, sessionId, dbOk) :
         /\ ret' = [op |-> "getLatestSummary", sessionId |-> sessionId,
                    dbOk |-> dbOk, threw |-> r.threw, val |-> r.val]
         /\ UNCHANGED <<vectorEmbedding, written, messageHistory, message, now>>
         /\ UNCHANGED chatVars

----------------------------------------------------------------------------
(* Context assembler, database variant: agent/retrieval.ts *)

RecentLimit == 20
DocLimit == 8
DefaultThreshold == 7

UserMessages == {<<"CSS">>, <<"Hi">>}

\* the backends a lookup of buildContext calls: prisma.message.findMany,
\* prisma.$queryRaw and prisma.message.findFirst
Backends == {"recent", "docs", "summary"}

\* the chunks of the smoke test (Test 2), texts abbreviated
testChunks == <<
  [source |-> "test", sourceId |-> "1", chunk |-> <<"html", "is", "structure">>],
  [source |-> "test", sourceId |-> "2", chunk |-> <<"css", "is", "style", "css">>] >>

UpsertTestChunks ==
  /\ Idle
  /\ LET r == upsertChunks(vectorEmbedding, testChunks, TRUE, Len(testChunks),
                             Len(testChunks) + 1)
       IN /\ vectorEmbedding = <<>>
          /\ vectorEmbedding' = r.table
          /\ written' = LastWrites(written, testChunks, TRUE, Len(testChunks),
                                   Len(testChunks) + 1)
          /\ ret' = [op |-> "upsertChunks", size |-> Len(testChunks),
                     wanted |-> WantedByBatch(testChunks), providerOk |-> TRUE,
                     complete |-> TRUE, writeFailed |-> FALSE,
                     threw |-> r.threw, before |-> vectorEmbedding]
          /\ UNCHANGED <<messageHistory, message, now>>
          /\ UNCHANGED chatVars

getRelevantDocumentsDb_StaleOnError(table, query, limit, threshold, backendOk) ==
  {[threw |-> FALSE,
    val |-> [i \in 1..Len(r.val) |->
               [source |-> r.val[i].source, sourceId |-> r.val[i].sourceId,
                chunk |-> r.val[i].chunk, similarity |-> r.val[i].similarity]]] :
     r \in searchChunks(table, query, limit, threshold, TRUE)}

\* getRelevantDocuments (database): the set of its outcomes
getRelevantDocumentsDb(table, query, limit, threshold, backendOk) ==
  {IF r.threw
   THEN [threw |-> FALSE, val |-> <<>>]
   ELSE [threw |-> FALSE,
         val |-> [i \in 1..Len(r.val) |->
                    [source |-> r.val[i].source, sourceId |-> r.val[i].sourceId,
                     chunk |-> r.val[i].chunk, similarity |-> r.val[i].similarity]]] :
     r \in searchChunks(table, query, limit, threshold, backendOk)}

\* getConversationSummary (database): the set of its outcomes
getConversationSummaryDb(table, sessionId, dbOk) ==
  {IF r.threw THEN [threw |-> FALSE, val |-> <<>>] ELSE r :
     r \in getLatestSummary(table, sessionId, dbOk)}

\* getSkillProgress (database): a fixed list, no backend is called
getSkillProgressDb(sessionId) ==
  [threw |-> FALSE,
   val |-> <<[skill |-> "html-basics", score |-> 75,
              notes |-> "Good understanding of elements and structure"],
             [skill |-> "css-selectors", score |-> 60,
              notes |-> "Working on advanced selectors"],
             [skill |-> "javascript-fundamentals", score |-> 45,
              notes |-> "Learning functions and variables"]>>]

\* the context of the catch branch: no summary and no skillProgress
EmptyContext ==
  [recentMessages |-> <<>>, relevantDocs |-> <<>>, summary |-> <<>>,
   skillProgress |-> <<>>]

\* buildContext (database): the set of its outcomes; failed is the set of
\* backends that do not answer during the call
buildContextDb(table, chunkTable, userMessage, sessionId, failed) ==
  {IF recent.threw \/ docs.threw \/ summary.threw \/ getSkillProgressDb(sessionId).threw
   THEN [threw |-> FALSE, rejected |-> TRUE, val |-> EmptyContext]
   ELSE [threw |-> FALSE, rejected |-> FALSE,
         val |-> [recentMessages |-> recent.val,
                  relevantDocs |-> docs.val,
                  summary |-> summary.val,
                  skillProgress |-> <<getSkillProgressDb(sessionId).val>>]] :
     recent \in getRecentMessagesDb(table, sessionId, RecentLimit, "recent" \notin failed),
     docs \in getRelevantDocumentsDb(chunkTable, userMessage, DocLimit,
                                     DefaultThreshold, "docs" \notin failed),
     summary \in getConversationSummaryDb(table, sessionId, "summary" \notin failed)}

BuildContextDb ==
  /\ Idle
  /\ \E userMessage \in UserMessages, sessionId \in SessionIds, failed \in SUBSET Backends :
         \E r \in buildContextDb(message, vectorEmbedding, userMessage, sessionId, failed) :
           /\ ret' = [op |-> "buildContext", userMessage |-> userMessage,
                      sessionId |-> sessionId, failed |-> failed,
                      threw |-> r.threw, rejected |-> r.rejected, val |-> r.val]
           /\ UNCHANGED <<vectorEmbedding, written, messageHistory, message, now>>
           /\ UNCHANGED chatVars

----------------------------------------------------------------------------
(* Reply generator: agent/index.ts (context-aware variant) *)

FallbackReply ==
  <<"Tiny step: create an index.html with <h1>Hello</h1> in a folder. Then open it in your browser.">>

OkayReply == <<"Okay.">>

\* what the completion provider answers when it answers with a text
ReplyText == <<"use", "CSS", "selectors">>

\* the message of the smoke test's request and a question
ChatMessages == {<<"Hello", "coding", "coach">>, <<"how", "style", "CSS">>}

contextTriggers == <<"how", "what", "why", "when", "where", "explain", "help",
                     "problem", "issue", "error", "debug", "fix", "center",
                     "layout", "style", "function", "variable", "element">>

\* the characters of a word
Spelling(token) ==
  CASE token = "how" -> <<"h", "o", "w">>
    [] token = "what" -> <<"w", "h", "a", "t">>
    [] token = "why" -> <<"w", "h", "y">>
    [] token = "when" -> <<"w", "h", "e", "n">>
    [] token = "where" -> <<"w", "h", "e", "r", "e">>
    [] token = "explain" -> <<"e", "x", "p", "l", "a", "i", "n">>
    [] token = "help" -> <<"h", "e", "l", "p">>
    [] token = "problem" -> <<"p", "r", "o", "b", "l", "e", "m">>
    [] token = "issue" -> <<"i", "s", "s", "u", "e">>
    [] token = "error" -> <<"e", "r", "r", "o", "r">>
    [] token = "debug" -> <<"d", "e", "b", "u", "g">>
    [] token = "fix" -> <<"f", "i", "x">>
    [] token = "center" -> <<"c", "e", "n", "t", "e", "r">>
    [] token = "layout" -> <<"l", "a", "y", "o", "u", "t">>
    [] token = "style" -> <<"s", "t", "y", "l", "e">>
    [] token = "function" -> <<"f", "u", "n", "c", "t", "i", "o", "n">>
    [] token = "variable" -> <<"v", "a", "r", "i", "a", "b", "l", "e">>
    [] token = "element" -> <<"e", "l", "e", "m", "e", "n", "t">>
    [] token = "Hello" -> <<"H", "e", "l", "l", "o">>
    [] token = "coding" -> <<"c", "o", "d", "i", "n", "g">>
    [] token = "coach" -> <<"c", "o", "a", "c", "h">>
    [] token = "CSS" -> <<"C", "S", "S">>
    [] token = "hi" -> <<"h", "i">>
    [] token = "hello" -> <<"h", "e", "l", "l", "o">>
    [] token = "Howdy" -> <<"H", "o", "w", "d", "y">>
    [] token = "show" -> <<"s", "h", "o", "w">>
    [] token = "HELP" -> <<"H", "E", "L", "P">>
    [] token = "div" -> <<"d", "i", "v">>
    [] token = "I" -> <<"I">>
    [] token = "thanks" -> <<"t", "h", "a", "n", "k", "s">>
    [] token = "prefix" -> <<"p", "r", "e", "f", "i", "x">>
    [] token = "do" -> <<"d", "o">>
    [] token = "a" -> <<"a">>

\* the characters of a text: its words with one space between them
RECURSIVE Spell(_)
Spell(text) ==
  IF text = <<>> THEN <<>>
  ELSE IF Len(text) = 1 THEN Spelling(text[1])
  ELSE Spelling(text[1]) \o <<" ">> \o Spell(Tail(text))

\* String.prototype.toLowerCase on one character
toLowerCaseChar(c) ==
  CASE c = "C" -> "c"
    [] c = "E" -> "e"
    [] c = "H" -> "h"
    [] c = "I" -> "i"
    [] c = "L" -> "l"
    [] c = "P" -> "p"
    [] c = "S" -> "s"
    [] OTHER -> c

\* String.prototype.toLowerCase
toLowerCaseString(chars) == [i \in 1..Len(chars) |-> toLowerCaseChar(chars[i])]

\* String.prototype.startsWith(keyword)
RECURSIVE StringStartsWith(_, _)
StringStartsWith(chars, keyword) ==
  IF keyword = <<>> THEN TRUE
  ELSE IF chars = <<>> THEN FALSE
  ELSE Head(chars) = Head(keyword) /\ StringStartsWith(Tail(chars), Tail(keyword))

\* String.prototype.includes(keyword): the keyword starts at some position
RECURSIVE StringIncludes(_, _)
StringIncludes(chars, keyword) ==
  IF StringStartsWith(chars, keyword) THEN TRUE
  ELSE IF chars = <<>> THEN FALSE
  ELSE StringIncludes(Tail(chars), keyword)

\* the words of a text, lower-cased
LowerWords(text) == [i \in 1..Len(text) |-> toLowerCaseString(Spelling(text[i]))]

needsContextEnrichment_WholeWords(userMessage) ==
  \E j \in 1..Len(contextTriggers) :
    \E i \in 1..Len(userMessage) :
      LowerWords(userMessage)[i] = Spelling(contextTriggers[j])

\* needsContextEnrichment: some trigger occurs in the lower-cased message
needsContextEnrichment(userMessage) ==
  LET lowered == toLowerCaseString(Spell(userMessage))
  IN \E j \in 1..Len(contextTriggers) :
       StringIncludes(lowered, Spelling(contextTriggers[j]))

\* needsContextEnrichment of the messages the chat handler receives
gateOfChatMessages == [m \in ChatMessages |-> needsContextEnrichment(m)]

\* what the backends of buildContext do during one reply: all answer or none does
ContextFailures == {{}, Backends}

generateAssistantReply_Rethrow(table, chunkTable, userMessage, sessionId, hasKey, failed, completion) ==
  IF ~hasKey THEN {[threw |-> FALSE, val |-> FallbackReply]}
  ELSE {IF context.threw THEN [threw |-> FALSE, val |-> FallbackReply]
        ELSE CASE completion = "error" -> [threw |-> TRUE, val |-> <<>>]
               [] completion = "empty" -> [threw |-> FALSE, val |-> OkayReply]
               [] OTHER -> [threw |-> FALSE, val |-> ReplyText] :
          context \in IF gateOfChatMessages[userMessage]
                      THEN buildContextDb(table, chunkTable, userMessage, sessionId, failed)
                      ELSE {[threw |-> FALSE]}}

\* generateAssistantReply(userMessage, sessionId): the set of its outcomes;
\* hasKey is whether env.OPENAI_API_KEY is set, failed the backends of
\* buildContext that do not answer, completion what the provider does
generateAssistantReply(table, chunkTable, userMessage, sessionId, hasKey, failed, completion) ==
  IF ~hasKey THEN {[threw |-> FALSE, val |-> FallbackReply]}
  ELSE {IF context.threw THEN [threw |-> FALSE, val |-> FallbackReply]
        ELSE CASE completion = "error" -> [threw |-> FALSE, val |-> FallbackReply]
               [] completion = "empty" -> [threw |-> FALSE, val |-> OkayReply]
               [] OTHER -> [threw |-> FALSE, val |-> ReplyText] :
          context \in IF gateOfChatMessages[userMessage]
                      THEN buildContextDb(table, chunkTable, userMessage, sessionId, failed)
                      ELSE {[threw |-> FALSE]}}

----------------------------------------------------------------------------
(* Chat handler, database variant: POST /chat of server.ts *)

MaxTurns == 2   \* chat turns that get as far as creating their session

SummaryThreshold == 6

\* the requests the server may be working on at the same time
Requests == {"r1", "r2"}

\* the ids prisma.session.create hands out, in this order
SessionNames == <<"c1", "c2", "c3", "c4", "c5">>

\* the id of the row prisma.session.create adds to a table of `created` rows
NewSessionId(created) == SessionNames[created + 1]

\* req.body.sessionId: the client names the session it talks in; the handler
\* never reads the field, so a request without it takes the same steps
ClientSessionIds == {<<"s1">>}

NoRequest ==
  [pc |-> "idle", requested |-> <<>>, sessionId |-> "", userMessage |-> <<>>,
   assistantReply |-> <<>>, messageCount |-> 0, storeFailed |-> FALSE,
   started |-> FALSE, response |-> <<>>]

\* res.status(500).json({error: 'internal_error'})
ErrorResponse == [status |-> 500, error |-> "internal_error"]

\* res.json({sessionId, assistantReply})
Payload(req) ==
  [status |-> 200, sessionId |-> req.sessionId, assistantReply |-> req.assistantReply]

\* the catch of the handler
chatCatch(req) == [req EXCEPT !.pc = "done", !.response = <<ErrorResponse>>]

chatStoreMessage_Swallow(req, table, role, content, clock, dbOk, next) ==
  LET r == messageCreate(table, req.sessionId, role, content, clock, dbOk)
  IN IF r.threw
     THEN [req |-> [req EXCEPT !.pc = next, !.storeFailed = TRUE], table |-> r.table]
     ELSE [req |-> [req EXCEPT !.pc = next], table |-> r.table]

\* await prisma.message.create({data: {sessionId, role, content}}) in the try
chatStoreMessage(req, table, role, content, clock, dbOk, next) ==
  LET r == messageCreate(table, req.sessionId, role, content, clock, dbOk)
  IN IF r.threw
     THEN [req |-> [chatCatch(req) EXCEPT !.storeFailed = TRUE], table |-> r.table]
     ELSE [req |-> [req EXCEPT !.pc = next], table |-> r.table]

\* prisma.message.count({where: {sessionId}})
messageCount(table, sessionId) == Cardinality(WhereSession(table, sessionId))

chatRespond_AfterOneExchange(req, runs) ==
  LET start == req.messageCount >= 2
  IN [req |-> [req EXCEPT !.pc = "done", !.started = start,
                          !.response = <<Payload(req)>>],
      runs |-> IF start THEN Append(runs, req.sessionId) ELSE runs]

\* from the count to res.json: summarizeSession is started, not awaited
chatRespond(req, runs) ==
  LET start == req.messageCount >= SummaryThreshold
  IN [req |-> [req EXCEPT !.pc = "done", !.started = start,
                          !.response = <<Payload(req)>>],
      runs |-> IF start THEN Append(runs, req.sessionId) ELSE runs]

ChatStart ==
  /\ Idle
  /\ session < MaxTurns
  /\ \E r \in Requests, userMessage \in ChatMessages, requested \in ClientSessionIds,
        dbOk \in BOOLEAN :
       /\ chat[r].pc = "idle"
       /\ IF dbOk
          THEN /\ session' = session + 1
               /\ chat' = [chat EXCEPT ![r] = [NoRequest EXCEPT
                                                 !.pc = "storeUser",
                                                 !.requested = requested,
                                                 !.sessionId = NewSessionId(session),
                                                 !.userMessage = userMessage]]
          ELSE /\ session' = session
               /\ chat' = [chat EXCEPT ![r] = chatCatch([NoRequest EXCEPT
                                                           !.requested = requested,
                                                           !.userMessage = userMessage])]
       /\ UNCHANGED <<vectorEmbedding, written, messageHistory, message, now,
                      summarizing, ret>>

ChatStoreUser ==
  /\ Idle
  /\ \E r \in Requests, dbOk \in BOOLEAN :
       /\ chat[r].pc = "storeUser"
       /\ LET o == chatStoreMessage(chat[r], message, "user", chat[r].userMessage, now,
                                    dbOk, "reply")
          IN /\ chat' = [chat EXCEPT ![r] = o.req]
             /\ message' = o.table
       /\ UNCHANGED <<vectorEmbedding, written, messageHistory, now, session,
                      summarizing, ret>>

ChatReply ==
  /\ Idle
  /\ \E r \in Requests, hasKey \in BOOLEAN, failed \in ContextFailures,
        completion \in Completions :
       /\ chat[r].pc = "reply"
       /\ \E o \in generateAssistantReply(message, vectorEmbedding, chat[r].userMessage,
                                          chat[r].sessionId, hasKey, failed, completion) :
            chat' = [chat EXCEPT ![r] =
                       IF o.threw THEN chatCatch(chat[r])
                       ELSE [chat[r] EXCEPT !.pc = "storeAssistant",
                                            !.assistantReply = o.val]]
       /\ UNCHANGED <<vectorEmbedding, written, messageHistory, message, now, session,
                      summarizing, ret>>

ChatStoreAssistant ==
  /\ Idle
  /\ \E r \in Requests, dbOk \in BOOLEAN :
       /\ chat[r].pc = "storeAssistant"
       /\ LET o == chatStoreMessage(chat[r], message, "assistant",
                                    chat[r].assistantReply, now, dbOk, "count")
          IN /\ chat' = [chat EXCEPT ![r] = o.req]
             /\ message' = o.table
       /\ UNCHANGED <<vectorEmbedding, written, messageHistory, now, session,
                      summarizing, ret>>

ChatCount ==
  /\ Idle
  /\ \E r \in Requests, dbOk \in BOOLEAN :
       /\ chat[r].pc = "count"
       /\ chat' = [chat EXCEPT ![r] =
                     IF dbOk
                     THEN [chat[r] EXCEPT !.pc = "respond",
                                          !.messageCount =
                                             messageCount(message, chat[r].sessionId)]
                     ELSE chatCatch(chat[r])]
       /\ UNCHANGED <<vectorEmbedding, written, messageHistory, message, now, session,
                      summarizing, ret>>

ChatRespond ==
  /\ Idle
  /\ \E r \in Requests :
       /\ chat[r].pc = "respond"
       /\ LET o == chatRespond(chat[r], summarizing)
          IN /\ chat' = [chat EXCEPT ![r] = o.req]
             /\ summarizing' = o.runs
       /\ UNCHANGED <<vectorEmbedding, written, messageHistory, message, now, session,
                      ret>>

\* the response has gone out and the request is over
ChatClose ==
  /\ Idle
  /\ \E r \in Requests :
       /\ chat[r].pc = "done"
       /\ chat' = [chat EXCEPT ![r] = NoRequest]
       /\ UNCHANGED <<vectorEmbedding, written, messageHistory, message, now, session,
                      summarizing, ret>>

\* generateAssistantReply called on its own, while no request is under way
GenerateAssistantReply ==
  /\ Idle
  /\ session >= 1
  /\ \A r \in Requests : chat[r].pc = "idle"
  /\ \E userMessage \in ChatMessages, hasKey \in BOOLEAN, failed \in ContextFailures,
        completion \in Completions :
       \E o \in generateAssistantReply(message, vectorEmbedding, userMessage,
                                       NewSessionId(session - 1), hasKey, failed,
                                       completion) :
         ret' = [op |-> "generateAssistantReply", userMessage |-> userMessage,
                 hasKey |-> hasKey, failed |-> failed, completion |-> completion,
                 threw |-> o.threw, val |-> o.val]
  /\ UNCHANGED <<vectorEmbedding, written, messageHistory, message, now>>
  /\ UNCHANGED chatVars

----------------------------------------------------------------------------
(* The two conversation stores side by side: agent/retrieval.ts *)

\* one message is appended to the session in both stores
StoreBoth ==
  /\ Idle
  /\ Len(message) < MaxMessages
  /\ RoomInTick(message, now)
  /\ \E sessionId \in SessionIds, msg \in MemMessages :
       /\ messageHistory' = storeMessage(messageHistory, sessionId, msg)
       /\ message' = messageCreate(message, sessionId, msg.role, msg.content, now,
                                   TRUE).table
       /\ ret' = [op |-> "storeMessage", sessionId |-> sessionId]
  /\ UNCHANGED <<vectorEmbedding, written, now>>
  /\ UNCHANGED chatVars

\* role and content of the messages of a result
RoleAndContent(messages) ==
  [i \in 1..Len(messages) |-> [role |-> messages[i].role, content |-> messages[i].content]]

\* both getRecentMessages are asked for the same session with the same limit
GetRecentMessagesBoth ==
  /\ Idle
  /\ \E sessionId \in SessionIds, limit \in 0..MaxMessages :
       \E r \in getRecentMessagesDb(message, sessionId, limit, TRUE) :
         ret' = [op |-> "getRecentMessagesBoth", sessionId |-> sessionId,
                 limit |-> limit,
                 mem |-> RoleAndContent(getRecentMessagesMem(messageHistory, sessionId,
                                                             limit)),
                 db |-> RoleAndContent(r.val)]
  /\ UNCHANGED <<vectorEmbedding, written, messageHistory, message, now>>
  /\ UNCHANGED chatVars

----------------------------------------------------------------------------
(* The enrichment gate on its own: needsContextEnrichment *)

MaxWords == 2   \* words of a message handed to the gate

GateWords == {"hi", "hello", "Howdy", "show", "HELP", "div", "center", "I",
              "thanks", "prefix"}

CenterADiv == <<"how", "do", "I", "center", "a", "div">>

GateMessages == {CenterADiv} \cup UNION {[1..n -> GateWords] : n \in 1..MaxWords}

NeedsContextEnrichment ==
  /\ Idle
  /\ \E userMessage \in GateMessages :
       ret' = [op |-> "needsContextEnrichment", userMessage |-> userMessage,
               val |-> needsContextEnrichment(userMessage)]
  /\ UNCHANGED <<vectorEmbedding, written, messageHistory, message, now>>
  /\ UNCHANGED chatVars

----------------------------------------------------------------------------
(* Prompt formatter: formatContextForPrompt, agent/retrieval.ts.  The      *)
(* output is a sequence of lines, a line a sequence of tokens; the empty   *)
(* line <<>> stands between two parts joined by a blank line.              *)

RecentShown == 6
DocsShown == 3

\* parts.join(sep): the lines of the parts with the lines sep between them
RECURSIVE JoinLines(_, _)
JoinLines(parts, sep) ==
  IF parts = <<>> THEN <<>>
  ELSE IF Len(parts) = 1 THEN parts[1]
  ELSE parts[1] \o sep \o JoinLines(Tail(parts), sep)

\* `${skill.skill}: ${skill.score}% (${skill.notes || 'no notes'})`
SkillText(skill) ==
  <<skill.skill, ToString(skill.score),
    IF skill.notes = "" THEN "no notes" ELSE skill.notes>>

SummarySection(context) ==
  IF context.summary # <<>> /\ context.summary[1] # <<>>
  THEN << <<<<"CONVERSATION SUMMARY:">> \o context.summary[1]>> >>
  ELSE <<>>

SkillSection_KeepEmpty(context) ==
  IF context.skillProgress # <<>>
  THEN << <<<<"SKILL PROGRESS:">>
            \o Flatten([i \in 1..Len(context.skillProgress[1]) |->
                          SkillText(context.skillProgress[1][i])])>> >>
  ELSE <<>>

SkillSection(context) ==
  IF context.skillProgress # <<>> /\ Len(context.skillProgress[1]) > 0
  THEN << <<<<"SKILL PROGRESS:">>
            \o Flatten([i \in 1..Len(context.skillProgress[1]) |->
                          SkillText(context.skillProgress[1][i])])>> >>
  ELSE <<>>

RecentSection(context) ==
  IF Len(context.recentMessages) > 0
  THEN LET shown == SliceFrom(context.recentMessages, 0 - RecentShown)
       IN << <<<<"RECENT CONVERSATION:">>>>
             \o [i \in 1..Len(shown) |-> <<shown[i].role>> \o shown[i].content] >>
  ELSE <<>>

DocsSection(context) ==
  IF Len(context.relevantDocs) > 0
  THEN LET shown == SliceTo(context.relevantDocs, DocsShown)
       IN << <<<<"RELEVANT LEARNING MATERIALS:">>>>
             \o JoinLines([i \in 1..Len(shown) |->
                             <<<<shown[i].source>> \o shown[i].chunk>>],
                          <<<<>>>>) >>
  ELSE <<>>

QuestionSection(userMessage) == << <<<<"CURRENT QUESTION:">> \o userMessage>> >>

\* formatContextForPrompt: the lines of the prompt
formatContextForPrompt(context, userMessage) ==
  JoinLines(SummarySection(context) \o SkillSection(context) \o RecentSection(context)
            \o DocsSection(context) \o QuestionSection(userMessage),
            <<<<>>>>)

\* contexts handed to the formatter: each field absent, empty, short, or longer
\* than what the formatter shows
FormatSummaries == {<<>>, <<<<>>>>, <<<<SummaryMarker, "practiced", "css">>>>}

FormatSkills ==
  {<<>>, <<<<>>>>,
   <<<<[skill |-> "html-basics", score |-> 75, notes |-> ""]>>>>,
   <<getSkillProgressDb("s1").val>>}

FormatRecent ==
  {<<>>,
   <<[role |-> "user", content |-> <<"how", "style", "CSS">>, timestamp |-> 0]>>,
   [i \in 1..(RecentShown + 1) |->
      [role |-> IF i % 2 = 1 THEN "user" ELSE "assistant",
       content |-> <<"turn", ToString(i)>>, timestamp |-> i]]}

FormatDocs ==
  {<<>>,
   <<[source |-> "html-basics", sourceId |-> "1", chunk |-> <<"html", "is", "structure">>]>>,
   [i \in 1..(DocsShown + 1) |->
      [source |-> "test", sourceId |-> ToString(i), chunk |-> <<"chunk", ToString(i)>>]]}

FormatQuestions == {<<"hello">>, <<>>, <<"how", "style", "CSS">>}

FormatContextForPrompt ==
  /\ Idle
  /\ \E summary \in FormatSummaries, skillProgress \in FormatSkills,
        recentMessages \in FormatRecent, relevantDocs \in FormatDocs,
        userMessage \in FormatQuestions :
       LET context == [recentMessages |-> recentMessages, relevantDocs |-> relevantDocs,
                       summary |-> summary, skillProgress |-> skillProgress]
       IN ret' = [op |-> "formatContextForPrompt", context |-> context,
                  userMessage |-> userMessage,
                  val |-> formatContextForPrompt(context, userMessage)]
  /\ UNCHANGED <<vectorEmbedding, written, messageHistory, message, now>>
  /\ UNCHANGED chatVars

----------------------------------------------------------------------------
(* Text chunker: chunkText, db/vectors.ts.  A string is the sequence of    *)
(* its characters; overlap is a fraction num/den.                          *)

MaxText == 6   \* characters of a text handed to chunkText

TextChars == {"a", "b", " ", "."}

Terminators == {".", "!", "?"}

\* maxTokens, small enough for the texts to cross maxTokens * 4 characters
TokenLimits == {1, 2}

CharsPerToken == 4

\* overlap: none, the default 0.15, and a half
Overlaps == {[num |-> 0, den |-> 1], [num |-> 15, den |-> 100], [num |-> 1, den |-> 2]}

InputTexts == UNION {[1..n -> TextChars] : n \in 0..MaxText}

\* String.prototype.trim
RECURSIVE trimStart(_)
trimStart(chars) ==
  IF chars # <<>> /\ Head(chars) = " " THEN trimStart(Tail(chars)) ELSE chars

RECURSIVE trimEnd(_)
trimEnd(chars) ==
  IF chars # <<>> /\ chars[Len(chars)] = " "
  THEN trimEnd(SubSeq(chars, 1, Len(chars) - 1))
  ELSE chars

trim(chars) == trimEnd(trimStart(chars))

\* String.prototype.split on single separator characters; piece is the piece
\* read so far
RECURSIVE SplitOn(_, _, _)
SplitOn(chars, separators, piece) ==
  IF chars = <<>> THEN <<piece>>
  ELSE IF Head(chars) \in separators
       THEN <<piece>> \o SplitOn(Tail(chars), separators, <<>>)
       ELSE SplitOn(Tail(chars), separators, Append(piece, Head(chars)))

\* Array.prototype.join(' ')
RECURSIVE JoinWords(_)
JoinWords(words) ==
  IF words = <<>> THEN <<>>
  ELSE IF Len(words) = 1 THEN words[1]
  ELSE words[1] \o <<" ">> \o JoinWords(Tail(words))

HasText(s) == Len(trim(s)) > 0

\* text.split(/[.!?]+/).filter(s => s.trim().length > 0): a run of terminators
\* leaves only empty pieces, which the filter drops
SplitSentences(text) == SelectSeq(SplitOn(text, Terminators, <<>>), HasText)

\* Math.floor(currentChunk.split(' ').length * overlap)
OverlapWords(currentChunk, overlap) ==
  (Len(SplitOn(currentChunk, {" "}, <<>>)) * overlap.num) \div overlap.den

\* currentChunk.split(' ').slice(-Math.floor(...)).join(' ')
OverlapText(currentChunk, overlap) ==
  JoinWords(SliceFrom(SplitOn(currentChunk, {" "}, <<>>),
                      0 - OverlapWords(currentChunk, overlap)))

NextBuffer_DropSentence(currentChunk, sentence, overlap) ==
  OverlapText(currentChunk, overlap) \o <<".", " ">>

\* the buffer after currentChunk was closed: overlapText + sentence + '. '
NextBuffer(currentChunk, sentence, overlap) ==
  OverlapText(currentChunk, overlap) \o sentence \o <<".", " ">>

\* the loop over the sentences and the final push; carried is the length of
\* the overlap text the buffer began with, seed what the buffer was when it
\* was opened, trigger the sentence that opened it; the result lists, for
\* every chunk pushed, the buffer it was trimmed from
RECURSIVE ChunkLoop(_, _, _, _, _, _, _)
ChunkLoop(sentences, currentChunk, carried, seed, trigger, limit, overlap) ==
  LET entry == [buffer |-> currentChunk, carried |-> carried, seed |-> seed,
                trigger |-> trigger]
  IN IF sentences = <<>>
     THEN IF Len(trim(currentChunk)) > 0 THEN <<entry>> ELSE <<>>
     ELSE LET sentence == Head(sentences)
              testChunk == currentChunk \o sentence \o <<".", " ">>
          IN IF Len(testChunk) > limit
             THEN IF currentChunk # <<>>
                  THEN LET next == NextBuffer(currentChunk, sentence, overlap)
                       IN <<entry>>
                          \o ChunkLoop(Tail(sentences), next,
                                       Len(OverlapText(currentChunk, overlap)),
                                       next, sentence, limit, overlap)
                  ELSE ChunkLoop(Tail(sentences), sentence \o <<".", " ">>, 0,
                                 sentence \o <<".", " ">>, sentence, limit, overlap)
             ELSE ChunkLoop(Tail(sentences), testChunk, carried,
                            IF currentChunk = <<>> THEN testChunk ELSE seed,
                            IF currentChunk = <<>> THEN sentence ELSE trigger,
                            limit, overlap)

\* chunkText with, for every chunk, the buffer it was trimmed from
chunkTextLog(text, maxTokens, overlap) ==
  ChunkLoop(SplitSentences(text), <<>>, 0, <<>>, <<>>, maxTokens * CharsPerToken, overlap)

\* chunkText: the chunks returned
chunkText(text, maxTokens, overlap) ==
  LET log == chunkTextLog(text, maxTokens, overlap)
  IN [i \in 1..Len(log) |-> trim(log[i].buffer)]

ChunkText ==
  /\ Idle
  /\ \E text \in InputTexts, maxTokens \in TokenLimits, overlap \in Overlaps :
       ret' = [op |-> "chunkText", text |-> text, maxTokens |-> maxTokens,
               overlap |-> overlap,
               log |-> chunkTextLog(text, maxTokens, overlap),
               val |-> chunkText(text, maxTokens, overlap)]
  /\ UNCHANGED <<vectorEmbedding, written, messageHistory, message, now>>
  /\ UNCHANGED chatVars

----------------------------------------------------------------------------
(* Content ingestion: scripts/ingest.ts.  A document is chunked anew on    *)
(* every run and its chunks are upserted under the source ids              *)
(* <document>-<chunk index>.                                               *)

\* the defaults of chunkText(text): maxTokens (1000, here scaled to documents
\* of a few characters) and overlap 0.15
DefaultMaxTokens == 1

DefaultOverlap == [num |-> 15, den |-> 100]

\* the text a document has at the time of a run
DocumentVersions ==
  {<<"a", ".">>, <<"b", ".">>, <<"a", "a", "a", ".", "b", "b">>}

\* ${index} of a template literal
Digits == <<"0", "1", "2", "3", "4", "5", "6", "7", "8", "9">>

IndexString(n) == Digits[n + 1]

\* chunkText(content) of every text a run may read
textChunksOf ==
  [content \in DocumentVersions \cup {<<>>} |->
     chunkText(content, DefaultMaxTokens, DefaultOverlap)]

\* textChunks.forEach((chunk, index) => chunks.push({source, sourceId: `${prefix}-${index}`, chunk}))
DocumentChunks(source, prefix, content) ==
  LET textChunks == textChunksOf[content]
  IN [i \in 1..Len(textChunks) |->
        [source |-> source,
         sourceId |-> prefix \o <<"-", IndexString(i - 1)>>,
         chunk |-> textChunks[i]]]

\* what the collaborators do during one run: the provider errors, or it answers
\* in full and the database accepts every write or rejects one
IngestOutcomes(n) == {o \in CallOutcomes(n) : ~o.providerOk \/ o.count = n}

\* file.path of the one matching file of the repository listing
ReadmePath == <<"README.md">>

\* ingestGitHub: without a token nothing is done; a failure of upsertChunks is
\* caught and logged
IngestGitHub ==
  /\ Idle
  /\ \E token \in BOOLEAN, content \in DocumentVersions :
       LET chunks == IF token THEN DocumentChunks("github", ReadmePath, content)
                     ELSE <<>>
       IN \E o \in IngestOutcomes(Len(chunks)) :
            LET r == upsertChunks(vectorEmbedding, chunks, o.providerOk, o.count,
                                  o.failAt)
            IN /\ vectorEmbedding' = r.table
               /\ ret' = [op |-> "ingestGitHub", document |-> ReadmePath,
                          content |-> content, chunks |-> chunks,
                          ingested |-> /\ token
                                       /\ o.providerOk
                                       /\ o.count = Len(chunks)
                                       /\ ~r.threw,
                          threw |-> FALSE]
  /\ UNCHANGED <<written, messageHistory, message, now>>
  /\ UNCHANGED chatVars

\* the items of internalContent written in the script, their contents scaled
\* to one sentence each
internalContent ==
  <<[title |-> <<"HTML", "Basics">>, content |-> <<"a", ".">>],
    [title |-> <<"CSS", "Fundamentals">>, content |-> <<"b", ".">>],
    [title |-> <<"JavaScript", "Essentials">>, content |-> <<"a", ".">>]>>

DesignSystemTitle == <<"CSS", "Design", "System", "Documentation">>

BestPracticesTitle == <<"CSS", "Design", "System", "Best", "Practices">>

\* the text of .cursor/css_design_system_best_practices.mdc, '' if unreadable
BestPracticesVersions == {<<>>, <<"b", ".">>}

\* title.toLowerCase().replace(/\s+/g, '-')
RECURSIVE JoinDashes(_)
JoinDashes(tokens) ==
  IF Len(tokens) <= 1 THEN tokens
  ELSE <<Head(tokens), "-">> \o JoinDashes(Tail(tokens))

Slug(title) == JoinDashes([i \in 1..Len(title) |-> toLowerCase(title[i])])

\* internalContent after the two optional pushes
InternalItems(designSystem, bestPractices) ==
  internalContent
    \o (IF designSystem # <<>>
        THEN <<[title |-> DesignSystemTitle, content |-> designSystem]>>
        ELSE <<>>)
    \o (IF bestPractices # <<>>
        THEN <<[title |-> BestPracticesTitle, content |-> bestPractices]>>
        ELSE <<>>)

\* internalContent.forEach((item, itemIndex) => ...) from item k on
RECURSIVE InternalChunks(_, _)
InternalChunks(items, k) ==
  IF k > Len(items) THEN <<>>
  ELSE DocumentChunks("internal",
                      Slug(items[k].title) \o <<"-", IndexString(k - 1)>>,
                      items[k].content)
         \o InternalChunks(items, k + 1)

\* the chunks array of a run, by the texts of the two files it reads
internalChunksOf ==
  [designSystem \in DocumentVersions \cup {<<>>} |->
     [bestPractices \in BestPracticesVersions |->
        InternalChunks(InternalItems(designSystem, bestPractices), 1)]]

\* ingestInternal: a failure of upsertChunks is thrown on to main
IngestInternal ==
  /\ Idle
  /\ \E designSystem \in DocumentVersions \cup {<<>>},
        bestPractices \in BestPracticesVersions :
       LET chunks == internalChunksOf[designSystem][bestPractices]
       IN \E o \in IngestOutcomes(Len(chunks)) :
            LET r == upsertChunks(vectorEmbedding, chunks, o.providerOk, o.count,
                                  o.failAt)
            IN /\ vectorEmbedding' = r.table
               /\ ret' = [op |-> "ingestInternal", document |-> Slug(DesignSystemTitle),
                          content |-> designSystem, chunks |-> chunks,
                          ingested |-> /\ o.providerOk
                                       /\ o.count = Len(chunks)
                                       /\ ~r.threw,
                          threw |-> r.threw]
  /\ UNCHANGED <<written, messageHistory, message, now>>
  /\ UNCHANGED chatVars

----------------------------------------------------------------------------
(* Specifications *)

Init ==
  /\ vectorEmbedding = <<>>
  /\ written = [k \in Keys |-> <<>>]
  /\ messageHistory = EmptyMap
  /\ message = <<>>
  /\ now = 0
  /\ session = 0
  /\ chat = [r \in Requests |-> NoRequest]
  /\ summarizing = <<>>
  /\ ret = NoCall

NextChunks == UpsertChunks \/ SearchChunks \/ GetRelevantDocumentsMem \/ Return

SpecChunks == Init /\ [][NextChunks]_vars

NextMem == StoreMessage \/ GetRecentMessagesMem \/ DeleteSession \/ Return

SpecMem == Init /\ [][NextMem]_vars

NextDb ==
  \/ Tick
  \/ MessageCreate
  \/ UpsertTestChunks
  \/ SummarizeSession
  \/ BuildContextDb
  \/ Return

SpecDb == Init /\ [][NextDb]_vars

NextChat ==
  \/ ChatStart
  \/ ChatStoreUser
  \/ ChatReply
  \/ ChatStoreAssistant
  \/ ChatCount
  \/ ChatRespond
  \/ ChatClose
  \/ GenerateAssistantReply
  \/ Return

SpecChat == Init /\ [][NextChat]_vars

NextSummary == Tick \/ MessageCreate \/ SummarizeSessionAgain \/ GetLatestSummary \/ Return

SpecSummary == Init /\ [][NextSummary]_vars

NextStores == Tick \/ StoreBoth \/ GetRecentMessagesBoth \/ Return

SpecStores == Init /\ [][NextStores]_vars

NextGate == NeedsContextEnrichment \/ Return

SpecGate == Init /\ [][NextGate]_vars

NextFormat == FormatContextForPrompt \/ Return

SpecFormat == Init /\ [][NextFormat]_vars

NextChunkText == ChunkText \/ Return

SpecChunkText == Init /\ [][NextChunkText]_vars

NextIngest == IngestGitHub \/ IngestInternal \/ Return

SpecIngest == Init /\ [][NextIngest]_vars

----------------------------------------------------------------------------
(* Claims about the chunk store and the search (SpecChunks) *)

RowsOf(table, k) == {i \in 1..Len(table) : Key(table[i]) = k}

\* C1: after any sequence of upsertChunks calls the store holds exactly one
\* record for every key a record write was carried out for, none for any other
\* key, and the record carries the text of the most recent write for its key.
C1_OneRecordPerKeyLastWriteWins ==
  \A k \in Keys :
    /\ Cardinality(RowsOf(vectorEmbedding, k)) = Len(written[k])
    /\ \A i \in RowsOf(vectorEmbedding, k) : vectorEmbedding[i].chunk = written[k][1]

\* C1 witness: a one-chunk upsert returned normally over a store that already
\* held another text under the chunk's key, and the record now holds the new text.
C1_Witness ==
  /\ ret.op = "upsertChunks"
  /\ ~ret.threw
  /\ ret.size = 1
  /\ \E i \in 1..Len(ret.before), j \in 1..Len(vectorEmbedding) :
       /\ Key(ret.before[i]) = Key(vectorEmbedding[j])
       /\ ret.wanted[Key(ret.before[i])] = <<vectorEmbedding[j].chunk>>
       /\ ret.before[i].chunk # vectorEmbedding[j].chunk

IsSearch == ret.op \in {"searchChunks", "getRelevantDocuments"}

\* C7: the list a search returns has at most limit entries and its
\* similarity values are non-increasing from first to last (limit >= 0).
C7_SearchBoundedAndOrdered ==
  IsSearch =>
    /\ Len(ret.val) <= ret.limit
    /\ \A a, b \in 1..Len(ret.val) :
         a < b => ret.val[a].similarity >= ret.val[b].similarity

\* C7 witness: a database search whose limit cut the list of matching records.
C7_Witness ==
  /\ ret.op = "searchChunks"
  /\ ret.backendOk
  /\ Len(ret.val) = ret.limit
  /\ ret.limit >= 1
  /\ Cardinality({i \in 1..Len(vectorEmbedding) :
                    TsMatch(vectorEmbedding[i].chunk, ret.query)}) > ret.limit

\* C8: every result a search returns has similarity >= the threshold passed.
C8_ResultsMeetThreshold ==
  IsSearch => \A i \in 1..Len(ret.val) : ret.val[i].similarity >= ret.threshold

\* C9: when the search backend fails, searchChunks returns an empty list,
\* does not throw, and leaves the chunk store unchanged.
C9_SearchDegradesToEmpty ==
  (ret.op = "searchChunks" /\ ~ret.backendOk) =>
    /\ ~ret.threw
    /\ ret.val = <<>>
    /\ vectorEmbedding = ret.before

\* C9 witness: the backend failed on a query that matches a stored record.
C9_Witness ==
  /\ ret.op = "searchChunks"
  /\ ~ret.backendOk
  /\ ~ret.threw
  /\ \E i \in 1..Len(vectorEmbedding) : TsMatch(vectorEmbedding[i].chunk, ret.query)

\* C10: when the embedding provider errors during upsertChunks of a non-empty
\* list, upsertChunks throws and no record is created or changed.
C10_EmbeddingFailureSurfaces ==
  (ret.op = "upsertChunks" /\ ret.size > 0 /\ ~ret.providerOk) =>
    /\ ret.threw
    /\ vectorEmbedding = ret.before

\* C10 witness: the provider failed on a batch aimed at a key that is stored
\* with another text.
C10_Witness ==
  /\ ret.op = "upsertChunks"
  /\ ~ret.providerOk
  /\ ret.threw
  /\ \E i \in 1..Len(ret.before) :
       /\ ret.wanted[Key(ret.before[i])] # <<>>
       /\ ret.wanted[Key(ret.before[i])] # <<ret.before[i].chunk>>

----------------------------------------------------------------------------
(* Claims about the in-memory conversation store (SpecMem) *)

\* the last k elements of a sequence
LastN(s, k) == SubSeq(s, Len(s) - k + 1, Len(s))

IsPrefix(s, t) == Len(s) <= Len(t) /\ SubSeq(t, 1, Len(s)) = s

\* C2: getRecentMessages(sessionId, limit) returns exactly the last
\* min(limit, n) of the session's n messages, oldest first, in the order they
\* were appended, for every limit >= 0; it never returns more than limit messages.
C2_RecentIsLastMinLimitN ==
  ret.op = "getRecentMessages" =>
    LET messages == MessagesOf(messageHistory, ret.sessionId)
    IN /\ ret.val = LastN(messages, Min(ret.limit, Len(messages)))
       /\ Len(ret.val) <= ret.limit

\* C3: every step leaves each session's stored sequence a prefix of its new
\* sequence, except the deletion of that whole session.
C3_AppendIsMonotonic ==
  [][\A s \in DOMAIN messageHistory :
       \/ /\ s \in DOMAIN messageHistory'
          /\ IsPrefix(messageHistory[s], messageHistory'[s])
       \/ /\ ret'.op = "deleteSession"
          /\ ret'.sessionId = s
          /\ s \notin DOMAIN messageHistory']_vars

\* C3 witness: storeMessage has appended to a session that already held messages
\* while another session holds messages too.
C3_Witness ==
  /\ ret.op = "storeMessage"
  /\ Len(messageHistory[ret.sessionId]) >= 2
  /\ messageHistory[ret.sessionId][1] # messageHistory[ret.sessionId][2]
  /\ \E s \in DOMAIN messageHistory : s # ret.sessionId /\ Len(messageHistory[s]) >= 1

----------------------------------------------------------------------------
(* Claims about the summarizer and the context assembler (SpecDb) *)

\* the rows of the session in a table Message
SessionRows(table, sessionId) == {i \in 1..Len(table) : table[i].sessionId = sessionId}

\* the number of messages stored for the session a summarizeSession call was about
StoredBefore == Cardinality(SessionRows(ret.before, ret.sessionId))

Entry(row) == [role |-> row.role, content |-> row.content, timestamp |-> row.createdAt]

\* the stored chunks the user message of the call matches
Matching == {i \in 1..Len(vectorEmbedding) : TsMatch(vectorEmbedding[i].chunk, ret.userMessage)}

\* the summary rows of the session of the call
SummaryRows ==
  {i \in SessionRows(message, ret.sessionId) :
     message[i].role = "system" /\ StartsWith(message[i].content, SummaryMarker)}

\* recentMessages is the session's rows, oldest first, the newest RecentLimit of them
RecentIsSessionLog ==
  LET rows == SessionRows(message, ret.sessionId)
      val == ret.val.recentMessages
  IN /\ Len(val) = Min(RecentLimit, Cardinality(rows))
     /\ \A a, b \in 1..Len(val) : a < b => val[a].timestamp <= val[b].timestamp
     /\ \A a \in 1..Len(val) :
          Cardinality({b \in 1..Len(val) : val[b] = val[a]})
            <= Cardinality({i \in rows : Entry(message[i]) = val[a]})
     /\ Cardinality(rows) <= RecentLimit =>
          \A i \in rows : \E a \in 1..Len(val) : val[a] = Entry(message[i])

\* relevantDocs is the matching chunks, as many as DocLimit allows
DocsAreMatches ==
  LET val == ret.val.relevantDocs
  IN /\ Len(val) = Min(DocLimit, Cardinality(Matching))
     /\ \A a \in 1..Len(val) :
          \E i \in Matching : /\ val[a].source = vectorEmbedding[i].source
                              /\ val[a].sourceId = vectorEmbedding[i].sourceId
                              /\ val[a].chunk = vectorEmbedding[i].chunk
     /\ \A a, b \in 1..Len(val) : a # b => val[a] # val[b]

\* summary is the content of a newest summary row of the session, if it has one
SummaryIsLatest ==
  IF SummaryRows = {} THEN ret.val.summary = <<>>
  ELSE \E i \in SummaryRows :
         /\ \A j \in SummaryRows : message[j].createdAt <= message[i].createdAt
         /\ ret.val.summary = <<message[i].content>>

\* C5: when exactly one lookup of buildContext fails, buildContext returns a
\* context in which that field alone is empty or absent and every other field
\* holds what its lookup produces: the session's messages, the matching chunks,
\* the latest summary, the skill progress list.
C5_OneFailureDegradesOneField ==
  (ret.op = "buildContext" /\ Cardinality(ret.failed) = 1) =>
    /\ ~ret.threw
    /\ ~ret.rejected
    /\ IF "recent" \in ret.failed THEN ret.val.recentMessages = <<>> ELSE RecentIsSessionLog
    /\ IF "docs" \in ret.failed THEN ret.val.relevantDocs = <<>> ELSE DocsAreMatches
    /\ IF "summary" \in ret.failed THEN ret.val.summary = <<>> ELSE SummaryIsLatest
    /\ ret.val.skillProgress = <<getSkillProgressDb(ret.sessionId).val>>

\* C5 witness: the relevance search failed on a user message that matches a
\* stored chunk, for a session that has messages and a summary; relevantDocs is
\* empty, recentMessages and summary are populated.
C5_Witness ==
  /\ ret.op = "buildContext"
  /\ ret.failed = {"docs"}
  /\ Matching # {}
  /\ ret.val.relevantDocs = <<>>
  /\ Len(ret.val.recentMessages) >= MinMessagesForSummary
  /\ ret.val.summary # <<>>

----------------------------------------------------------------------------
(* Claims about the write path of the chunk store (SpecChunks) *)

\* C11: whenever upsertChunks returns without throwing, every chunk of the
\* batch is stored under its (source, sourceId) key with its text (for a key
\* the batch names more than once: the text of its last chunk), whatever the
\* embedding provider answered.
C11_NormalReturnStoresEveryChunk ==
  (ret.op = "upsertChunks" /\ ~ret.threw) =>
    \A k \in Keys :
      ret.wanted[k] # <<>> =>
        \E i \in RowsOf(vectorEmbedding, k) : <<vectorEmbedding[i].chunk>> = ret.wanted[k]

\* C12: when upsertChunks fails because a store write is rejected partway
\* through the batch, the chunk store is exactly as it was before the call.
C12_FailedBatchLeavesStoreUnchanged ==
  (ret.op = "upsertChunks" /\ ret.writeFailed) =>
    /\ ret.threw
    /\ vectorEmbedding = ret.before

----------------------------------------------------------------------------
(* Claims about the chat handler and the reply generator (SpecChat) *)

\* C13: in the database-backed chat handler a failure to store the user
\* message or the assistant message is never swallowed: the request ends with
\* the error response and never with a normal reply payload.
C13_FailedStoreEndsInErrorResponse ==
  \A r \in Requests :
    chat[r].storeFailed =>
      /\ chat[r].pc = "done"
      /\ chat[r].response = <<ErrorResponse>>

\* the user message was stored, storing the assistant reply failed, and the
\* request ended with the error response
C13_Witness ==
  \E r \in Requests :
    /\ chat[r].storeFailed
    /\ chat[r].assistantReply # <<>>
    /\ \E i \in WhereSession(message, chat[r].sessionId) : message[i].role = "user"
    /\ chat[r].response = <<ErrorResponse>>

----------------------------------------------------------------------------
(* Claims about summarizeSession and the order of the message log (SpecDb) *)

\* C16: summarizeSession never throws; when the completion call fails for a
\* session with a readable log of 4 or more messages, the summary text is the
\* fixed sentence and the summary row is still stored; when reading the log
\* or writing the row fails the call ends normally and stores nothing.
C16_SummarizeSessionNeverFails ==
  ret.op = "summarizeSession" =>
    /\ ~ret.threw
    /\ (/\ ret.readOk
        /\ ret.completion = "error"
        /\ Cardinality(WhereSession(ret.before, ret.sessionId)) >= MinMessagesForSummary)
         => /\ ret.val # <<>>
            /\ ret.val[1].summary = FallbackSummary
            /\ ret.writeOk =>
                 /\ Len(message) = Len(ret.before) + 1
                 /\ SubSeq(message, 1, Len(ret.before)) = ret.before
                 /\ message[Len(message)].sessionId = ret.sessionId
                 /\ message[Len(message)].role = "system"
                 /\ message[Len(message)].content = SummaryContent(ret.val[1])
                 /\ SubSeq(message[Len(message)].content, 1, 2)
                      = <<SummaryMarker>> \o FallbackSummary
    /\ (~ret.readOk \/ ~ret.writeOk) => message = ret.before

\* the completion call failed and the summary row with the fixed sentence is
\* the newest row of the table
C16_Witness ==
  /\ ret.op = "summarizeSession"
  /\ ret.readOk /\ ret.writeOk
  /\ ret.completion = "error"
  /\ ~ret.threw
  /\ Len(message) = Len(ret.before) + 1
  /\ SubSeq(message[Len(message)].content, 1, 2) = <<SummaryMarker>> \o FallbackSummary

\* the write of the summary row failed and the call ended normally
C16_WitnessWriteFails ==
  /\ ret.op = "summarizeSession"
  /\ ret.readOk /\ ~ret.writeOk
  /\ ret.val # <<>>
  /\ ~ret.threw
  /\ message = ret.before

\* the entries of the session's rows in the order in which the rows were appended
RECURSIVE ArrivalLog(_, _)
ArrivalLog(table, sessionId) ==
  IF table = <<>> THEN <<>>
  ELSE LET rest == ArrivalLog(SubSeq(table, 1, Len(table) - 1), sessionId)
           last == table[Len(table)]
       IN IF last.sessionId = sessionId THEN Append(rest, Entry(last)) ELSE rest

\* C19: of two messages stored in the same session, the one whose append
\* arrived first is returned first by getRecentMessages, also when both carry
\* the same timestamp: the recent messages of a context read with a working
\* database are the session's rows in arrival order.
C19_RecentMessagesInArrivalOrder ==
  (ret.op = "buildContext" /\ "recent" \notin ret.failed) =>
    ret.val.recentMessages = ArrivalLog(message, ret.sessionId)

----------------------------------------------------------------------------
(* Claims about the deletion of a session (SpecMem) *)

\* C20: deleteSession(sessionId) returns true when the session existed and
\* removes all of its messages, returns false when no such session exists,
\* and changes no other session's messages; hence deleting the same session
\* twice returns true, then false.
C20_DeleteSessionStep ==
  [][ret'.op = "deleteSession" =>
       /\ ret'.val = (ret'.sessionId \in DOMAIN messageHistory)
       /\ ret'.sessionId \notin DOMAIN messageHistory'
       /\ MessagesOf(messageHistory', ret'.sessionId) = <<>>
       /\ \A s \in SessionIds \ {ret'.sessionId} :
            /\ (s \in DOMAIN messageHistory') = (s \in DOMAIN messageHistory)
            /\ MessagesOf(messageHistory', s) = MessagesOf(messageHistory, s)]_vars

\* a session with messages was deleted, the call returned true, and the other
\* session still holds its messages
C20_Witness ==
  /\ ret.op = "deleteSession"
  /\ ret.val
  /\ ret.sessionId \notin DOMAIN messageHistory
  /\ \E s \in SessionIds \ {ret.sessionId} : MessagesOf(messageHistory, s) # <<>>

\* a deletion of a session the store does not hold returned false
C20_WitnessAbsent ==
  /\ ret.op = "deleteSession"
  /\ ~ret.val
  /\ messageHistory # EmptyMap

----------------------------------------------------------------------------
(* Claims about the latest summary (SpecSummary) *)

\* C17: after any sequence of summarizations of a session, getLatestSummary
\* read with a working database returns the content of the most recently
\* generated summary of the session, the summary row stored last; it only
\* ever returns the content of a system-role row of that session that starts
\* with 'SESSION SUMMARY:', and nothing when the session has no such row.
C17_LatestSummaryIsMostRecent ==
  (ret.op = "getLatestSummary" /\ ret.dbOk) =>
    LET rows == WhereSummary(message, ret.sessionId)
    IN IF rows = {} THEN ret.val = <<>>
       ELSE ret.val = <<message[SetMax(rows)].content>>

----------------------------------------------------------------------------
(* Summarizations started by chat turns (SpecChat) *)

\* C18: no two summarizeSession runs started by chat turns and not yet
\* finished are about the same session.
C18_OneRunPerSession ==
  \A i, j \in 1..Len(summarizing) : summarizing[i] = summarizing[j] => i = j

\* no chat turn ever starts a run: each turn counts the 2 messages of the
\* session it created itself
C18_NoRunStarted == summarizing = <<>>

----------------------------------------------------------------------------
(* Claims about the two conversation stores side by side (SpecStores) *)

\* C21: for every sequence of appends to a session and every limit, the
\* in-memory and the database-backed getRecentMessages return the same
\* messages (role and content) in the same order.
C21_StoresInterchangeable ==
  ret.op = "getRecentMessagesBoth" => ret.mem = ret.db

----------------------------------------------------------------------------
(* Claims about the enrichment gate (SpecGate) *)

\* C22 as stated: needsContextEnrichment is true exactly when one of the
\* words of the message, compared case-insensitively, is a trigger word, and
\* false for every message none of whose words is a trigger word.
C22_TrueIffATriggerWord ==
  ret.op = "needsContextEnrichment" =>
    (ret.val <=>
       \E i \in 1..Len(ret.userMessage), j \in 1..Len(contextTriggers) :
         toLowerCaseString(Spelling(ret.userMessage[i])) = Spelling(contextTriggers[j]))

\* C22 amended: needsContextEnrichment is true exactly when some trigger
\* occurs in the lower-cased message as a run of consecutive characters, also
\* inside a longer word, and false otherwise; 'how do I center a div' gives
\* true and 'hi' gives false.
C22_TrueIffATriggerOccurs ==
  ret.op = "needsContextEnrichment" =>
    LET lowered == toLowerCaseString(Spell(ret.userMessage))
    IN /\ ret.val <=>
            \E j \in 1..Len(contextTriggers) :
              LET trigger == Spelling(contextTriggers[j])
              IN \E k \in 1..Len(lowered) :
                   /\ k + Len(trigger) - 1 <= Len(lowered)
                   /\ SubSeq(lowered, k, k + Len(trigger) - 1) = trigger
       /\ ret.userMessage = CenterADiv => ret.val
       /\ ret.userMessage = <<"hi">> => ~ret.val

\* the gate opened for a greeting none of whose words is a trigger word
C22_Witness ==
  /\ ret.op = "needsContextEnrichment"
  /\ ret.userMessage = <<"Howdy">>
  /\ ret.val

\* the gate answered the two examples
C22_WitnessExamples ==
  /\ ret.op = "needsContextEnrichment"
  /\ \/ ret.userMessage = CenterADiv /\ ret.val
     \/ ret.userMessage = <<"hi">> /\ ~ret.val

----------------------------------------------------------------------------
(* Claims about the prompt formatter (SpecFormat) *)

SectionLabels ==
  <<"CONVERSATION SUMMARY:", "SKILL PROGRESS:", "RECENT CONVERSATION:",
    "RELEVANT LEARNING MATERIALS:", "CURRENT QUESTION:">>

\* the lines of a prompt that open the section of the label
LabelLines(lines, label) == {i \in 1..Len(lines) : lines[i] # <<>> /\ lines[i][1] = label}

\* whether a context holds data for the k-th section
HasData(context, k) ==
  CASE k = 1 -> context.summary # <<>> /\ context.summary[1] # <<>>
    [] k = 2 -> context.skillProgress # <<>> /\ context.skillProgress[1] # <<>>
    [] k = 3 -> context.recentMessages # <<>>
    [] k = 4 -> context.relevantDocs # <<>>
    [] OTHER -> TRUE

\* C23: formatContextForPrompt renders the sections in the order summary,
\* skill progress, recent conversation, relevant documents, current question,
\* each at most once and after a blank line unless it is the first; a section
\* is rendered exactly when its data is not empty; the prompt always ends
\* with the CURRENT QUESTION section; an empty context and the message
\* 'hello' give exactly the one line 'CURRENT QUESTION: hello'; the output is
\* a function of the inputs.
C23_SectionsInFixedOrder ==
  ret.op = "formatContextForPrompt" =>
    LET lines == ret.val
    IN /\ \A k \in 1..Len(SectionLabels) :
            /\ Cardinality(LabelLines(lines, SectionLabels[k])) =
                 IF HasData(ret.context, k) THEN 1 ELSE 0
            /\ \A i \in LabelLines(lines, SectionLabels[k]) :
                 i = 1 \/ lines[i - 1] = <<>>
       /\ \A k, l \in 1..Len(SectionLabels) :
            k < l =>
              \A i \in LabelLines(lines, SectionLabels[k]),
                 j \in LabelLines(lines, SectionLabels[l]) : i < j
       /\ lines[Len(lines)] = <<"CURRENT QUESTION:">> \o ret.userMessage
       /\ (ret.context = EmptyContext /\ ret.userMessage = <<"hello">>)
            => lines = << <<"CURRENT QUESTION:", "hello">> >>
       /\ lines = formatContextForPrompt(ret.context, ret.userMessage)

\* every section was rendered, from a context whose skill list has an entry
\* and whose conversation and documents are longer than what is shown
C23_Witness ==
  /\ ret.op = "formatContextForPrompt"
  /\ \A k \in 1..Len(SectionLabels) : LabelLines(ret.val, SectionLabels[k]) # {}
  /\ Len(ret.context.recentMessages) > RecentShown
  /\ Len(ret.context.relevantDocs) > DocsShown

\* the empty context with 'hello' was rendered
C23_WitnessEmpty ==
  /\ ret.op = "formatContextForPrompt"
  /\ ret.context = EmptyContext
  /\ ret.userMessage = <<"hello">>
  /\ Len(ret.val) = 1

----------------------------------------------------------------------------
(* Claims about the text chunker (SpecChunkText) *)

\* C24: for every non-empty input text, chunkText returns at least one chunk
\* and every chunk it returns is a non-empty string.
C24_AtLeastOneNonEmptyChunk ==
  (ret.op = "chunkText" /\ ret.text # <<>>) =>
    /\ Len(ret.val) >= 1
    /\ \A i \in 1..Len(ret.val) : ret.val[i] # <<>>

\* the part of a buffer after the overlap text it began with
NonOverlap(entry) == SubSeq(entry.buffer, entry.carried + 1, Len(entry.buffer))

\* whether the characters of part occur in chars as one run
OccursIn(part, chars) ==
  \E k \in 0..(Len(chars) - Len(part)) : SubSeq(chars, k + 1, k + Len(part)) = part

\* C25: chunkText drops no sentence: every sentence of the input occurs in a
\* chunk, and the buffers of the chunks with their overlap texts removed, read
\* in order, are the sentences of the input in their original order, each
\* closed by '. '; every chunk returned is its buffer, trimmed.
C25_NoSentenceDropped ==
  ret.op = "chunkText" =>
    LET sentences == SplitSentences(ret.text)
    IN /\ \A s \in 1..Len(sentences) :
            \E i \in 1..Len(ret.val) : OccursIn(trim(sentences[s]), ret.val[i])
       /\ Flatten([i \in 1..Len(ret.log) |-> NonOverlap(ret.log[i])])
            = Flatten([s \in 1..Len(sentences) |-> sentences[s] \o <<".", " ">>])
       /\ Len(ret.val) = Len(ret.log)
       /\ \A i \in 1..Len(ret.val) : ret.val[i] = trim(ret.log[i].buffer)

\* a text of two different sentences was split into two chunks and the second
\* chunk began with some, not all, of the words of the first
C25_Witness ==
  /\ ret.op = "chunkText"
  /\ Len(SplitSentences(ret.text)) = 2
  /\ SplitSentences(ret.text)[1] # SplitSentences(ret.text)[2]
  /\ Len(ret.val) = 2
  /\ ret.log[2].carried > 0
  /\ ret.log[2].carried < Len(ret.log[1].buffer)

\* the words of a buffer as the chunker counts them
WordsOf(buffer) == SplitOn(buffer, {" "}, <<>>)

\* the last k words of a buffer, joined again
LastWords(buffer, k) ==
  JoinWords(SubSeq(WordsOf(buffer), Len(WordsOf(buffer)) - k + 1, Len(WordsOf(buffer))))

\* C26: when chunkText closes a chunk, the next buffer starts with exactly the
\* last floor(w * overlap) words of the closed buffer, w being its word count,
\* followed by the sentence that triggered the split; when floor(w * overlap)
\* is 0 no word of the closed buffer is carried over.
C26_OverlapIsLastWords ==
  ret.op = "chunkText" =>
    \A i \in 2..Len(ret.log) :
      LET closed == ret.log[i - 1].buffer
          k == (Len(WordsOf(closed)) * ret.overlap.num) \div ret.overlap.den
      IN ret.log[i].seed = LastWords(closed, k) \o ret.log[i].trigger \o <<".", " ">>

\* C27: every chunk returned by chunkText has at most maxTokens * 4
\* characters, except a chunk that consists of one single sentence which is
\* itself longer than that.
C27_ChunksBounded ==
  ret.op = "chunkText" =>
    \A i \in 1..Len(ret.val) :
      \/ Len(ret.val[i]) <= ret.maxTokens * CharsPerToken
      \/ \E s \in 1..Len(SplitSentences(ret.text)) :
           /\ Len(SplitSentences(ret.text)[s]) > ret.maxTokens * CharsPerToken
           /\ ret.log[i].buffer = SplitSentences(ret.text)[s] \o <<".", " ">>

----------------------------------------------------------------------------
(* Claims about the session of a chat turn (SpecChat) *)

\* C28: a chat request that supplies a sessionId and is answered normally has
\* its user message and its assistant reply stored in that session, in that
\* order, and the response carries the same sessionId.
C28_TurnStoredInSuppliedSession ==
  \A r \in Requests :
    (/\ chat[r].requested # <<>>
     /\ chat[r].response # <<>>
     /\ chat[r].response[1].status = 200) =>
      /\ chat[r].response[1].sessionId = chat[r].requested[1]
      /\ \E i, j \in WhereSession(message, chat[r].requested[1]) :
           /\ i < j
           /\ message[i].role = "user" /\ message[i].content = chat[r].userMessage
           /\ message[j].role = "assistant"
           /\ message[j].content = chat[r].assistantReply

----------------------------------------------------------------------------
(* Claims about re-ingestion (SpecIngest) *)

\* the (source id, chunk) pairs stored for a document: the rows whose source
\* id is <document>-...
StoredFor(document) ==
  {<<vectorEmbedding[i].sourceId, vectorEmbedding[i].chunk>> :
     i \in {j \in 1..Len(vectorEmbedding) :
              IsPrefix(document \o <<"-">>, vectorEmbedding[j].sourceId)}}

\* the (source id, chunk) pairs the last run made of the document's text
LatestFor(document) ==
  {<<ret.chunks[i].sourceId, ret.chunks[i].chunk>> :
     i \in {j \in 1..Len(ret.chunks) :
              IsPrefix(document \o <<"-">>, ret.chunks[j].sourceId)}}

\* C29: after a document is ingested again, the chunks stored for it are
\* exactly the chunks of its latest text; no chunk of an earlier version
\* remains in the store.
C29_OnlyLatestChunksStored ==
  (ret.op \in {"ingestGitHub", "ingestInternal"} /\ ret.ingested /\ ret.content # <<>>)
    => StoredFor(ret.document) = LatestFor(ret.document)

----------------------------------------------------------------------------
(* Claims about stored summaries and the conversation (SpecDb) *)

\* a message that is a stored summary
IsSummaryMessage(msg) == msg.role = "system" /\ StartsWith(msg.content, SummaryMarker)

\* the lines of a prompt that carry the text of a stored summary
SummaryLines(prompt) ==
  {i \in 1..Len(prompt) : \E j \in 1..Len(prompt[i]) : prompt[i][j] = SummaryMarker}

\* C30: a stored session summary is kept apart from the conversation: the
\* recentMessages of the database-backed buildContext never contain a
\* 'SESSION SUMMARY:' system message, and in the formatted prompt the summary
\* text stands only in the summary section.
C30_SummaryApartFromConversation ==
  (ret.op = "buildContext" /\ ~ret.rejected)
    => /\ \A i \in 1..Len(ret.val.recentMessages) :
            ~IsSummaryMessage(ret.val.recentMessages[i])
       /\ LET prompt == formatContextForPrompt(ret.val, ret.userMessage)
          IN \A i \in SummaryLines(prompt) :
               StartsWith(prompt[i], "CONVERSATION SUMMARY:")

====
